---- MODULE Spec2Model ----
(***************************************************************************)
(* A model of the term hash map of src/datastruct/stacker/hashmap.rs:      *)
(* murmurhash2, split_memory, QuadraticProbing and TermHashMap, together   *)
(* with the part of the arena (super::heap) the table relies on.           *)
(*                                                                         *)
(* Integers of the program are 32-bit (u32) or 64-bit (usize).  A u32 is   *)
(* kept as the pair <<high 16 bits, low 16 bits>> so that every            *)
(* intermediate result of the wrapping arithmetic stays small.             *)
(***************************************************************************)
EXTENDS Integers, Sequences, FiniteSets, TLC

(***************************************************************************)
(* Bounds of the model.                                                    *)
(***************************************************************************)
\* new() is called with num_bucket_power_of_2 in 1..MaxTableBits
MaxTableBits == 4
\* get_or_create is called with the first NumKeys keys of KeyPool
NumKeys == 5
\* split_memory is called with budgets 0..MaxBudget (and the tested ones)
MaxBudget == 400
\* add_field_idx is called with the indices 0..MaxFieldIdx
MaxFieldIdx == 9
\* and with the sizes 0..MaxByteCount
MaxByteCount == 10
\* a BooleanWeight has at most MaxClauses clauses
MaxClauses == 3

(***************************************************************************)
(* 32-bit wrapping arithmetic on <<hi, lo>> pairs.                         *)
(***************************************************************************)
W16 == 65536

RECURSIVE Xor(_, _)
\* bitwise exclusive or of two naturals
Xor(a, b) ==
    IF a = 0 THEN b
    ELSE IF b = 0 THEN a
    ELSE (((a % 2) + (b % 2)) % 2) + 2 * Xor(a \div 2, b \div 2)

RECURSIVE Pow2(_)
Pow2(n) == IF n = 0 THEN 1 ELSE 2 * Pow2(n - 1)

\* the u32 of a small natural (u32::from(byte), len as u32)
U32(n) == <<n \div W16, n % W16>>

\* a ^ b on u32
Xor32(a, b) == <<Xor(a[1], b[1]), Xor(a[2], b[2])>>

\* a >> n on u32, 0 < n < 32
Shr32(a, n) ==
    IF n >= 16
    THEN <<0, a[1] \div Pow2(n - 16)>>
    ELSE <<a[1] \div Pow2(n), (a[2] \div Pow2(n)) + (a[1] % Pow2(n)) * Pow2(16 - n)>>

\* a << n on a byte widened to u32, n in {8, 16}
Shl32(a, n) ==
    IF n >= 16
    THEN <<(a[2] * Pow2(n - 16)) % W16, 0>>
    ELSE <<(a[1] * Pow2(n) + (a[2] * Pow2(n)) \div W16) % W16, (a[2] * Pow2(n)) % W16>>

\* the full 32-bit product of two 16-bit numbers, as <<hi, lo>>
Mul16(x, y) ==
    LET x1 == x \div 256
        x0 == x % 256
        y1 == y \div 256
        y0 == y % 256
        low == x0 * y0
        mid == x1 * y0 + x0 * y1
        lo32 == low + (mid % 256) * 256
    IN  <<x1 * y1 + (mid \div 256) + (lo32 \div W16), lo32 % W16>>

\* a.wrapping_mul(b) on u32
WrappingMul(a, b) ==
    LET ll == Mul16(a[2], b[2])
        hl == Mul16(a[1], b[2])
        lh == Mul16(a[2], b[1])
    IN  <<(ll[1] + hl[2] + lh[2]) % W16, ll[2]>>

(***************************************************************************)
(* murmurhash2                                                             *)
(***************************************************************************)
\* const SEED: u32 = 3_242_157_231 = 0xC13F_64AF
SEED == <<49471, 25775>>
\* const M: u32 = 0x5bd1_e995
M == <<23505, 59797>>

\* *key_ptr: the 4 bytes at 1-based index p .. p+3, read as a little-endian word
ReadWord(key, p) == <<key[p + 3] * 256 + key[p + 2], key[p + 1] * 256 + key[p]>>

\* the block loop body with k ^= k >> 16 in place of k ^= k >> 24
MixBlock_shift16(h, k0) ==
    LET k1 == WrappingMul(k0, M)
        k2 == Xor32(k1, Shr32(k1, 16))
        k3 == WrappingMul(k2, M)
    IN  Xor32(WrappingMul(h, M), k3)

\* one iteration of the block loop: mixes the word k into h
MixBlock(h, k0) ==
    LET k1 == WrappingMul(k0, M)
        k2 == Xor32(k1, Shr32(k1, 24))
        k3 == WrappingMul(k2, M)
    IN  Xor32(WrappingMul(h, M), k3)

RECURSIVE BlockLoop(_, _, _, _)
\* for _ in 0..num_blocks, block b being the next one
BlockLoop(key, h, b, num_blocks) ==
    IF b >= num_blocks THEN h
    ELSE BlockLoop(key, MixBlock(h, ReadWord(key, 4 * b + 1)), b + 1, num_blocks)

\* the match on remaining.len(), remaining = key[len & !3 ..]
MixTail(key, h) ==
    LET len == Len(key)
        base == 4 * (len \div 4)
        rem == len - base
        r(j) == U32(key[base + 1 + j])
    IN  IF rem = 3
        THEN WrappingMul(Xor32(Xor32(Xor32(h, Shl32(r(2), 16)), Shl32(r(1), 8)), r(0)), M)
        ELSE IF rem = 2
        THEN WrappingMul(Xor32(Xor32(h, Shl32(r(1), 8)), r(0)), M)
        ELSE IF rem = 1
        THEN WrappingMul(Xor32(h, r(0)), M)
        ELSE h

\* the number of blocks rounded up: (len + 3) >> 2 in place of len >> 2
num_blocks_round_up(len) == (len + 3) \div 4

\* let num_blocks = len >> 2
num_blocks(len) == len \div 4

\* the offsets from key.as_ptr() of the bytes the block loop reads through
\* key_ptr, which is advanced by one u32 per block
WordReadOffsets(len) == {4 * b + j : b \in 0..(num_blocks(len) - 1), j \in 0..3}

\* the indices into key the tail reads: those of remaining = key[len & !3 ..]
TailReadOffsets(len) == {4 * (len \div 4) + j : j \in 0..((len % 4) - 1)}

\* What key.as_ptr() points into: the memory from the first byte of the
\* slice on, which is the rest of the enclosing buffer and then bytes that
\* belong to something else (kept as 0).  Pointer reads are not bounds-checked.
Beyond == <<0, 0, 0>>
from_ptr(mem, start) == SubSeq(mem, start + 1, Len(mem)) \o Beyond

\* murmurhash2(key) for the slice key = mem[start .. start + len] of the
\* buffer mem: the block loop reads through the raw pointer, the tail reads
\* the slice.  The word read is taken to give the four bytes in little-endian
\* order at any address, as it does on x86-64 and aarch64.
murmurhash2_at(mem, start, len) ==
    LET key == SubSeq(mem, start + 1, start + len)
        h0 == Xor32(SEED, U32(len))
        h1 == BlockLoop(from_ptr(mem, start), h0, 0, num_blocks(len))
        h2 == MixTail(key, h1)
        h3 == Xor32(h2, Shr32(h2, 13))
        h4 == WrappingMul(h3, M)
    IN  Xor32(h4, Shr32(h4, 15))

\* murmurhash2 of a key that is a whole buffer
murmurhash2(key) == murmurhash2_at(key, 0, Len(key))

(***************************************************************************)
(* The keys get_or_create is called with.  "4g" and "361n" have the same   *)
(* murmurhash2; the hashes of "g", "aar" and "aaaac" differ from it by 3,  *)
(* 8 and 15 modulo 16, so that with 16 slots their first probes are the    *)
(* 2nd, 3rd and 4th probes of "4g" and "361n".                             *)
(***************************************************************************)
KeyPool ==
    << <<52, 103>>,                 \* "4g"
       <<51, 54, 49, 110>>,         \* "361n"
       <<103>>,                     \* "g"
       <<97, 97, 114>>,             \* "aar"
       <<97, 97, 97, 97, 99>>,      \* "aaaac"
       <<97, 98, 99>>,              \* "abc"
       <<97, 98, 99, 100>> >>       \* "abcd"

Keys == {KeyPool[n] : n \in 1..NumKeys}

(***************************************************************************)
(* The arena (super::heap): a bump allocator.  Byte strings are stored     *)
(* with a 2-byte length prefix, objects are built from their address.      *)
(***************************************************************************)
\* BytesRef::default(), the reserved null reference
NullAddr == -1
\* mem::size_of::<TestValue>(): two u32 fields
ValueSize == 8

\* with_addr that does not start val at zero
with_addr_nonzero(addr) == [val |-> 1, addr |-> addr]

\* HeapAllocable::with_addr for TestValue
with_addr(addr) == [val |-> 0, addr |-> addr]

\* Heap::with_capacity: nothing allocated yet
EmptyHeap == [len |-> 0, slices |-> <<>>, objs |-> <<>>]

\* Heap::allocate_and_set(data): the heap after the call and the BytesRef returned
allocate_and_set(h, data) ==
    <<[h EXCEPT !.len = @ + 2 + Len(data), !.slices = @ @@ (h.len :> data)], h.len>>

\* Heap::allocate_object(): the heap after the call and the address of the object
allocate_object(h) ==
    <<[h EXCEPT !.len = @ + ValueSize, !.objs = @ @@ (h.len :> with_addr(h.len))], h.len>>

\* Heap::get_slice(bytes_ref)
get_slice(h, bytes_ref) == h.slices[bytes_ref]

(***************************************************************************)
(* KeyValue, QuadraticProbing and the pure parts of TermHashMap.           *)
(***************************************************************************)
\* KeyValue::default()
DefaultKeyValue == [key_value_addr |-> NullAddr, hash |-> <<0, 0>>]

\* KeyValue::is_empty
is_empty(kv) == kv.key_value_addr = NullAddr

\* TermHashMap::new(num_bucket_power_of_2, heap): table, mask and occupied
new(num_bucket_power_of_2) ==
    LET table_size == Pow2(num_bucket_power_of_2)
    IN  [table |-> [b \in 0..(table_size - 1) |-> DefaultKeyValue],
         mask |-> table_size - 1,
         occupied |-> <<>>]

\* QuadraticProbing::compute(hash as usize, mask), called by TermHashMap::probe
compute(hash, msk) == [hash |-> hash, i |-> 0, mask |-> msk]

\* (hash + sq) & mask in usize.  mask is 2^bits - 1 with bits <= 16, and the
\* sum does not overflow 64 bits, so the result is the sum modulo 2^bits and
\* only the low half of the u32 hash contributes.
AndMask(hash, sq, msk) == (hash[2] + sq) % (msk + 1)

\* next_probe that computes the bucket before it increments i: starts at hash & mask
next_probe_post_increment(p) ==
    <<[p EXCEPT !.i = p.i + 1], AndMask(p.hash, p.i * p.i, p.mask)>>

\* QuadraticProbing::next_probe: the prober after the call and the bucket returned
next_probe(p) ==
    LET i == p.i + 1
    IN  <<[p EXCEPT !.i = i], AndMask(p.hash, i * i, p.mask)>>

\* is_saturated with a threshold of one half
is_saturated_half(tbl, occ) == Cardinality(DOMAIN tbl) < Len(occ) * 2

\* TermHashMap::is_saturated
is_saturated(tbl, occ) == Cardinality(DOMAIN tbl) < Len(occ) * 3

\* the two allocations in the other order: the value object, then the key
allocate_value_then_key(h, key_bytes) ==
    LET a2 == allocate_object(h)
        a1 == allocate_and_set(a2[1], key_bytes)
    IN  [heap |-> a1[1], key_bytes_ref |-> a1[2], addr |-> a2[2]]

\* the two allocations of the empty-slot branch of get_or_create:
\* allocate_and_set(key_bytes), then allocate_object()
allocate_key_then_value(h, key_bytes) ==
    LET a1 == allocate_and_set(h, key_bytes)
        a2 == allocate_object(a1[1])
    IN  [heap |-> a2[1], key_bytes_ref |-> a1[2], addr |-> a2[2]]

\* get_key_value that forgets the 2-byte length prefix of the stored key
get_key_value_no_prefix(h, bytes_ref) ==
    LET key_bytes == get_slice(h, bytes_ref)
    IN  <<key_bytes, bytes_ref + Len(key_bytes)>>

\* TermHashMap::get_key_value: the key bytes and the address of the value
get_key_value(h, bytes_ref) ==
    LET key_bytes == get_slice(h, bytes_ref)
    IN  <<key_bytes, bytes_ref + 2 + Len(key_bytes)>>

\* set_bucket without self.occupied.push(bucket)
set_bucket_no_push(tbl, occ, hash, key_value_addr, bucket) ==
    [occupied |-> occ,
     table |-> [tbl EXCEPT ![bucket] = [key_value_addr |-> key_value_addr, hash |-> hash]]]

\* set_bucket putting the bucket in front of the occupancy order
set_bucket_push_front(tbl, occ, hash, key_value_addr, bucket) ==
    [occupied |-> <<bucket>> \o occ,
     table |-> [tbl EXCEPT ![bucket] = [key_value_addr |-> key_value_addr, hash |-> hash]]]

\* set_bucket starting the occupancy order anew once it holds table_size / 2
\* buckets, the capacity new() reserves for it
set_bucket_wrap(tbl, occ, hash, key_value_addr, bucket) ==
    [occupied |-> IF 2 * Len(occ) >= Cardinality(DOMAIN tbl) THEN <<bucket>> ELSE Append(occ, bucket),
     table |-> [tbl EXCEPT ![bucket] = [key_value_addr |-> key_value_addr, hash |-> hash]]]

\* TermHashMap::set_bucket: table and occupied after the call
set_bucket(tbl, occ, hash, key_value_addr, bucket) ==
    [occupied |-> Append(occ, bucket),
     table |-> [tbl EXCEPT ![bucket] = [key_value_addr |-> key_value_addr, hash |-> hash]]]

\* Iter::next, until it returns None: the elements (key, offset, bucket) yielded
IterAll(tbl, occ, h) ==
    [n \in 1..Len(occ) |->
        LET bucket == occ[n]
            kv == tbl[bucket]
            kvl == get_key_value(h, kv.key_value_addr)
        IN  [key |-> kvl[1], offset |-> kvl[2], bucket |-> bucket]]

\* the loop without its else-if branch: a stored key is never recognised
probe_outcome_never_hit(h, kv, hash, key_bytes) ==
    IF is_empty(kv) THEN "insert" ELSE "skip"

\* the loop taking a slot of equal hash for the key, without comparing the bytes
probe_outcome_hash_only(h, kv, hash, key_bytes) ==
    IF is_empty(kv) THEN "insert"
    ELSE IF kv.hash = hash THEN "hit"
    ELSE "skip"

\* the loop taking over the slot of another key instead of probing on
probe_outcome_overwrite(h, kv, hash, key_bytes) ==
    IF is_empty(kv) THEN "insert"
    ELSE IF kv.hash = hash /\ get_key_value(h, kv.key_value_addr)[1] = key_bytes THEN "hit"
    ELSE "insert"

\* the branch one iteration of the loop of get_or_create takes on the slot kv
probe_outcome(h, kv, hash, key_bytes) ==
    IF is_empty(kv) THEN "insert"
    ELSE IF kv.hash = hash /\ get_key_value(h, kv.key_value_addr)[1] = key_bytes THEN "hit"
    ELSE "skip"

\* let hash = murmurhash2(key.as_ref()), tabulated over the keys of the model
hash_of == [k \in Keys |-> murmurhash2(k)]

\* the caller of test_hash_map sets the value of the n-th key it creates to
\* FirstVal + n - 1 (3 for "abc", 4 for "abcd")
FirstVal == 3

(***************************************************************************)
(* The state.                                                              *)
(***************************************************************************)
VARIABLES
    table,          \* TermHashMap.table: slot index -> KeyValue
    mask,           \* TermHashMap.mask
    occupied,       \* TermHashMap.occupied
    heap,           \* the Heap the table refers to
    pc,             \* "idle", "probing" (inside the loop of get_or_create) or "panic"
    key_bytes,      \* get_or_create: its argument
    probe,          \* get_or_create: its QuadraticProbing
    ret,            \* what the last get_or_create returned, while the &mut V is alive
    iter_out,       \* the elements the last iter() yielded
    hist_first,     \* history: key -> what the first get_or_create of the key returned
    hist_order,     \* history: the keys in the order of their first get_or_create
    hist_written,   \* history: key -> the value last written through a reference to it
    budget,         \* split_memory: its argument
    split_ret,      \* split_memory: what it returned
    hash_run,       \* murmurhash2: its argument (buffer, start, len) and result
    hash_prev,      \* murmurhash2: the same for the call before
    sub_weights,    \* FieldUsage.sub_weights
    weight,         \* FieldUsage.weight
    usage_pc,       \* "ok", or "panic" once add_field_idx has panicked
    usage_added,    \* history: the (idx, size) of the add_field_idx calls
    weights,        \* BooleanWeight.weights: the clauses (occur, sub-weight)
    scoring_enabled,\* BooleanWeight.scoring_enabled
    scorer_ret,     \* what BooleanWeight::scorer returned
    union_args      \* history: the lengths of the vectors scorer_union was given

vars == <<table, mask, occupied, heap, pc, key_bytes, probe, ret, iter_out,
          hist_first, hist_order, hist_written, budget, split_ret,
          hash_run, hash_prev, sub_weights, weight, usage_pc, usage_added,
          weights, scoring_enabled, scorer_ret, union_args>>

table_vars == <<table, mask, occupied, heap, pc, key_bytes, probe, ret, iter_out,
                hist_first, hist_order, hist_written>>

split_vars == <<budget, split_ret>>

hash_vars == <<hash_run, hash_prev>>

usage_vars == <<sub_weights, weight, usage_pc, usage_added>>

bool_vars == <<weights, scoring_enabled, scorer_ret, union_args>>

\* no value returned (yet)
NoRet == [id |-> -1, addr |-> -1]
NoSplit == <<-1, -1>>
NoHash == <<-1, -1>>

\* the model follows a call for two periods of its probe sequence
MaxProbes(msk) == 2 * (msk + 1) + 1

InitTable(bits) ==
    /\ table = new(bits).table
    /\ mask = new(bits).mask
    /\ occupied = new(bits).occupied
    /\ heap = EmptyHeap
    /\ pc = "idle"
    /\ key_bytes = <<>>
    /\ probe = compute(<<0, 0>>, new(bits).mask)
    /\ ret = NoRet
    /\ iter_out = <<>>
    /\ hist_first = [k \in Keys |-> NoRet]
    /\ hist_order = <<>>
    /\ hist_written = [k \in Keys |-> 0]

InitSplit ==
    /\ budget = 0
    /\ split_ret = NoSplit

\* murmurhash2 not called yet
InitHash ==
    /\ hash_run = [mem |-> <<>>, start |-> 0, len |-> 0, out |-> NoHash]
    /\ hash_prev = [mem |-> <<>>, start |-> 0, len |-> 0, out |-> NoHash]

\* the state after FieldUsage::empty(field)
InitUsage ==
    /\ sub_weights = <<>>
    /\ weight = 0
    /\ usage_pc = "ok"
    /\ usage_added = <<>>

\* BooleanWeight::scorer not called yet
NoScorer == [kind |-> "none"]

\* the state after BooleanWeight::new(Vec::new(), false)
InitBool ==
    /\ weights = <<>>
    /\ scoring_enabled = FALSE
    /\ scorer_ret = NoScorer
    /\ union_args = <<>>

\* the state after TermHashMap::new(bits, &heap) on a fresh heap
Init ==
    /\ \E bits \in 1..MaxTableBits : InitTable(bits)
    /\ InitSplit
    /\ InitHash
    /\ InitUsage
    /\ InitBool

(***************************************************************************)
(* get_or_create.  Call is its entry; each of ProbeInsert, ProbeHit and    *)
(* ProbeSkip is one iteration of its loop.                                 *)
(***************************************************************************)
\* the caller holds a reference to a value it has just created and not yet set
FreshRef == ret # NoRet /\ heap.objs[ret.addr].val = 0

Call(k) ==
    /\ pc = "idle"
    /\ ~FreshRef
    /\ pc' = "probing"
    /\ key_bytes' = k
    /\ probe' = compute(hash_of[k], mask)
    /\ ret' = NoRet
    /\ iter_out' = <<>>
    /\ UNCHANGED <<table, mask, occupied, heap, hist_first, hist_order, hist_written>>
    /\ UNCHANGED <<split_vars, hash_vars, usage_vars, bool_vars>>

\* the history after get_or_create(key_bytes) returned r
Returned(r) ==
    /\ ret' = r
    /\ hist_first' = IF hist_first[key_bytes] = NoRet
                     THEN [hist_first EXCEPT ![key_bytes] = r]
                     ELSE hist_first
    /\ hist_order' = IF hist_first[key_bytes] = NoRet
                     THEN Append(hist_order, key_bytes)
                     ELSE hist_order
    /\ UNCHANGED <<key_bytes, iter_out, hist_written>>

ProbeInsert ==
    /\ pc = "probing"
    /\ LET np == next_probe(probe)
           bucket == np[2]
           kv == table[bucket]
           al == allocate_key_then_value(heap, key_bytes)
           key_bytes_ref == al.key_bytes_ref
           addr == al.addr
           sb == set_bucket(table, occupied, probe.hash, key_bytes_ref, bucket)
       IN  /\ probe_outcome(heap, kv, probe.hash, key_bytes) = "insert"
           /\ probe' = np[1]
           /\ heap' = al.heap
           /\ IF addr = key_bytes_ref + 2 + Len(key_bytes)
              THEN /\ table' = sb.table
                   /\ occupied' = sb.occupied
                   /\ pc' = "idle"
                   /\ Returned([id |-> bucket, addr |-> addr])
              ELSE /\ pc' = "panic"
                   /\ UNCHANGED <<table, occupied, ret, key_bytes, iter_out,
                                  hist_first, hist_order, hist_written>>
    /\ UNCHANGED mask
    /\ UNCHANGED <<split_vars, hash_vars, usage_vars, bool_vars>>

ProbeHit ==
    /\ pc = "probing"
    /\ LET np == next_probe(probe)
           bucket == np[2]
           kv == table[bucket]
       IN  /\ probe_outcome(heap, kv, probe.hash, key_bytes) = "hit"
           /\ probe' = np[1]
           /\ pc' = "idle"
           /\ Returned([id |-> bucket, addr |-> get_key_value(heap, kv.key_value_addr)[2]])
    /\ UNCHANGED <<table, mask, occupied, heap>>
    /\ UNCHANGED <<split_vars, hash_vars, usage_vars, bool_vars>>

ProbeSkip ==
    /\ pc = "probing"
    /\ probe.i < MaxProbes(mask)
    /\ LET np == next_probe(probe)
           kv == table[np[2]]
       IN  /\ probe_outcome(heap, kv, probe.hash, key_bytes) = "skip"
           /\ probe' = np[1]
    /\ UNCHANGED <<table, mask, occupied, heap, pc, key_bytes, ret, iter_out,
                   hist_first, hist_order, hist_written>>
    /\ UNCHANGED <<split_vars, hash_vars, usage_vars, bool_vars>>

(***************************************************************************)
(* The caller, as in test_hash_map: it sets the val of a value it created  *)
(* through the reference get_or_create returned, before its next call.     *)
(***************************************************************************)
Write ==
    /\ pc = "idle"
    /\ FreshRef
    /\ heap' = [heap EXCEPT !.objs[ret.addr].val = FirstVal + Len(occupied) - 1]
    /\ hist_written' = [hist_written EXCEPT ![key_bytes] = FirstVal + Len(occupied) - 1]
    /\ UNCHANGED <<table, mask, occupied, pc, key_bytes, probe, ret, iter_out,
                   hist_first, hist_order>>
    /\ UNCHANGED <<split_vars, hash_vars, usage_vars, bool_vars>>

(***************************************************************************)
(* iter(), drained.  It borrows the table, which ends the &mut V.          *)
(***************************************************************************)
Iterate ==
    /\ pc = "idle"
    /\ ~FreshRef
    /\ iter_out' = IterAll(table, occupied, heap)
    /\ ret' = NoRet
    /\ UNCHANGED <<table, mask, occupied, heap, pc, key_bytes, probe,
                   hist_first, hist_order, hist_written>>
    /\ UNCHANGED <<split_vars, hash_vars, usage_vars, bool_vars>>

Next ==
    \/ \E k \in Keys : Call(k)
    \/ ProbeInsert
    \/ ProbeHit
    \/ ProbeSkip
    \/ Write
    \/ Iterate

Spec == Init /\ [][Next]_vars

(***************************************************************************)
(* split_memory                                                            *)
(***************************************************************************)
\* mem::size_of::<KeyValue>(): a BytesRef (u32) and a u32
KeyValueSize == 8

\* the budgets of test_hashmap_size
TestBudgets == {100000, 1000000, 10000000}

Budgets == (0..MaxBudget) \cup TestBudgets

\* the closure compute_table_size
compute_table_size(num_bits) == Pow2(num_bits) * KeyValueSize

\* Iterator::last() of an empty iterator
None == 0

RECURSIVE take_while_last_le(_, _, _)
\* take_while with <= in place of <
take_while_last_le(num_bits, table_size_limit, last) ==
    IF compute_table_size(num_bits) <= table_size_limit
    THEN take_while_last_le(num_bits + 1, table_size_limit, num_bits)
    ELSE last

RECURSIVE take_while_last(_, _, _)
\* (num_bits..).take_while(|n| compute_table_size(n) < table_size_limit).last(),
\* last being the last element taken so far
take_while_last(num_bits, table_size_limit, last) ==
    IF compute_table_size(num_bits) < table_size_limit
    THEN take_while_last(num_bits + 1, table_size_limit, num_bits)
    ELSE last

\* split_memory with .unwrap_or(1) in place of .expect(): one bit when none fits
split_memory_default_one(per_thread_memory_budget) ==
    LET table_size_limit == per_thread_memory_budget \div 3
        found == take_while_last(1, table_size_limit, None)
        table_num_bits == IF found = None THEN 1 ELSE found
        table_size == compute_table_size(table_num_bits)
        heap_size == per_thread_memory_budget - table_size
    IN  [panics |-> FALSE, value |-> <<heap_size, table_num_bits>>]

\* split_memory: whether .expect() panics, and (heap_size, table_num_bits) if not
split_memory(per_thread_memory_budget) ==
    LET table_size_limit == per_thread_memory_budget \div 3
        table_num_bits == take_while_last(1, table_size_limit, None)
        table_size == compute_table_size(table_num_bits)
        heap_size == per_thread_memory_budget - table_size
    IN  IF table_num_bits = None
        THEN [panics |-> TRUE, value |-> NoSplit]
        ELSE [panics |-> FALSE, value |-> <<heap_size, table_num_bits>>]

PanicSplit == <<-2, -2>>

SplitReturns(b) ==
    /\ ~split_memory(b).panics
    /\ budget' = b
    /\ split_ret' = split_memory(b).value
    /\ UNCHANGED <<table_vars, hash_vars, usage_vars, bool_vars>>

SplitPanics(b) ==
    /\ split_memory(b).panics
    /\ budget' = b
    /\ split_ret' = PanicSplit
    /\ UNCHANGED <<table_vars, hash_vars, usage_vars, bool_vars>>

SplitInit ==
    /\ InitTable(1)
    /\ InitSplit
    /\ InitHash
    /\ InitUsage
    /\ InitBool

SplitNext ==
    \/ \E b \in Budgets : SplitReturns(b)
    \/ \E b \in Budgets : SplitPanics(b)

\* split_memory called with any of the budgets, any number of times
SplitSpec == SplitInit /\ [][SplitNext]_vars

(***************************************************************************)
(* murmurhash2 on slices of buffers                                        *)
(***************************************************************************)
\* the buffers of test_murmur, "abcdef" and "abcdeg", and "fabcde", in which
\* the same bytes stand one byte later
Buffers ==
    { <<97, 98, 99, 100, 101, 102>>,
      <<97, 98, 99, 100, 101, 103>>,
      <<102, 97, 98, 99, 100, 101>> }

\* "abcdefghijklmnop", the longest key of test_murmur_against_reference_impl
LongKey == <<97, 98, 99, 100, 101, 102, 103, 104, 105, 106, 107, 108, 109, 110, 111, 112>>

\* the slices murmurhash2 is called with: every slice of the buffers (those
\* of test_murmur and the short reference keys among them) and the long key
HashInputs ==
    UNION {{[mem |-> m, start |-> i, len |-> n] : n \in 0..(Len(m) - i)} :
              m \in Buffers, i \in 0..6}
    \cup {[mem |-> LongKey, start |-> 0, len |-> Len(LongKey)]}

hash_at == [in \in HashInputs |-> murmurhash2_at(in.mem, in.start, in.len)]

\* one call murmurhash2(&mem[start .. start + len])
Hash(in) ==
    /\ hash_prev' = hash_run
    /\ hash_run' = [mem |-> in.mem, start |-> in.start, len |-> in.len,
                    out |-> hash_at[in]]
    /\ UNCHANGED <<table_vars, split_vars, usage_vars, bool_vars>>

HashInit ==
    /\ InitTable(1)
    /\ InitSplit
    /\ InitHash
    /\ InitUsage
    /\ InitBool

HashNext == \E in \in HashInputs : Hash(in)

\* murmurhash2 called with any of the slices, any number of times
HashSpec == HashInit /\ [][HashNext]_vars

(***************************************************************************)
(* FieldUsage (space_usage)                                                *)
(***************************************************************************)
\* Option::None in sub_weights; Some(ByteCount(n)) is n
NoWeight == -1

\* Vec::resize(new_len, value)
resize(v, new_len, value) ==
    IF new_len > Len(v)
    THEN v \o [n \in 1..(new_len - Len(v)) |-> value]
    ELSE SubSeq(v, 1, new_len)

\* FieldUsage::add_field_idx on (sub_weights, weight): whether it panics (the
\* index sub_weights[idx] out of bounds, or the assert), and the fields after
add_field_idx(sw, w, idx, size) ==
    LET resized == IF Len(sw) < idx THEN resize(sw, idx, NoWeight) ELSE sw
    IN  IF idx >= Len(resized)
        THEN [panics |-> TRUE, sub_weights |-> resized, weight |-> w]
        ELSE IF resized[idx + 1] # NoWeight
        THEN [panics |-> TRUE, sub_weights |-> resized, weight |-> w]
        ELSE [panics |-> FALSE,
              sub_weights |-> [resized EXCEPT ![idx + 1] = size],
              weight |-> w + size]

\* FieldUsage::total
total == weight

\* one call add_field_idx(idx, ByteCount(size)) with an index not used before
AddFieldIdx(idx, size) ==
    /\ usage_pc = "ok"
    /\ \A n \in DOMAIN usage_added : usage_added[n][1] # idx
    /\ LET r == add_field_idx(sub_weights, weight, idx, size)
       IN  /\ sub_weights' = r.sub_weights
           /\ weight' = r.weight
           /\ usage_pc' = IF r.panics THEN "panic" ELSE "ok"
    /\ usage_added' = Append(usage_added, <<idx, size>>)
    /\ UNCHANGED <<table_vars, split_vars, hash_vars, bool_vars>>

UsageInit ==
    /\ InitTable(1)
    /\ InitSplit
    /\ InitHash
    /\ InitUsage
    /\ InitBool

UsageNext == \E idx \in 0..MaxFieldIdx, size \in 0..MaxByteCount : AddFieldIdx(idx, size)

\* add_field_idx called on FieldUsage::empty(field), any number of times
UsageSpec == UsageInit /\ [][UsageNext]_vars

(***************************************************************************)
(* BooleanWeight (query::boolean_query)                                    *)
(***************************************************************************)
\* enum Occur
Occurs == {"Should", "Must", "MustNot"}

\* What a sub-weight's scorer(reader) gives: a TermScorer, another scorer,
\* or an error.
WeightKinds == {"term", "other", "err"}

\* a clause (Occur, Box<Weight>)
Clauses == [occur : Occurs, weight : WeightKinds]

\* the clause lists BooleanWeight::new is called with
ClauseLists == UNION {[1..n -> Clauses] : n \in 0..MaxClauses}

\* the results: scorers, Err(..) of the Result, and a panic
EmptyScorer == [kind |-> "EmptyScorer"]
ErrResult == [kind |-> "Err"]
PanicResult == [kind |-> "panic"]
Failed(r) == r.kind \in {"Err", "panic"}

\* subweight.scorer(reader) of the n-th clause
sub_scorer(ws, n) ==
    IF ws[n].weight = "err" THEN ErrResult
    ELSE [kind |-> IF ws[n].weight = "term" THEN "TermScorer" ELSE "Scorer", clause |-> n]

\* scorer_union: the scorer, and the length of the vector it was given
scorer_union(scorers) ==
    IF scorers = <<>>
    THEN [ret |-> PanicResult, arg |-> 0]
    ELSE IF Len(scorers) = 1
    THEN [ret |-> scorers[1], arg |-> 1]
    ELSE IF \A n \in DOMAIN scorers : scorers[n].kind = "TermScorer"
    THEN [ret |-> [kind |-> "UnionOfTermScorers", of |-> scorers], arg |-> Len(scorers)]
    ELSE [ret |-> [kind |-> "Union", of |-> scorers], arg |-> Len(scorers)]

\* query::intersect_scorers
intersect_scorers(scorers) == [kind |-> "Intersection", of |-> scorers]

\* a map that starts with an empty vector for every Occur
new_per_occur_all_keys == [occur \in Occurs |-> <<>>]

\* HashMap::new() for per_occur_scorers: no entry
new_per_occur == [occur \in {} |-> <<>>]

\* per_occur_scorers.entry(occur).or_insert_with(Vec::new).push(sub_scorer)
entry_push(map, occur, scr) ==
    IF occur \in DOMAIN map
    THEN [map EXCEPT ![occur] = Append(@, scr)]
    ELSE [o \in (DOMAIN map) \cup {occur} |-> IF o = occur THEN <<scr>> ELSE map[o]]

RECURSIVE collect(_, _, _)
\* the for loop of complex_scorer from clause n on: the map, or the error of
\* the first sub-weight that fails
collect(ws, n, map) ==
    IF n > Len(ws) THEN [err |-> FALSE, map |-> map]
    ELSE IF Failed(sub_scorer(ws, n)) THEN [err |-> TRUE, map |-> map]
    ELSE collect(ws, n + 1, entry_push(map, ws[n].occur, sub_scorer(ws, n)))

\* Option::None
NoneOpt == [kind |-> "None"]

\* per_occur_scorers.remove(&occur).map(scorer_union): the option, and the
\* lengths scorer_union was called with
remove_map_union(map, occur) ==
    IF occur \in DOMAIN map
    THEN [opt |-> scorer_union(map[occur]).ret, args |-> <<scorer_union(map[occur]).arg>>]
    ELSE [opt |-> NoneOpt, args |-> <<>>]

\* per_occur_scorers.remove(&Occur::Must).map(intersect_scorers)
remove_map_intersect(map) ==
    IF "Must" \in DOMAIN map THEN intersect_scorers(map["Must"]) ELSE NoneOpt

\* BooleanWeight::complex_scorer: what it returns, and the scorer_union calls
complex_scorer(ws, scoring) ==
    LET c == collect(ws, 1, new_per_occur)
        should == remove_map_union(c.map, "Should")
        exclude == remove_map_union(c.map, "MustNot")
        must_scorer_opt == remove_map_intersect(c.map)
        positive_scorer ==
            IF should.opt # NoneOpt /\ must_scorer_opt # NoneOpt
            THEN IF scoring
                 THEN [kind |-> "RequiredOptionalScorer",
                       req |-> must_scorer_opt, opt |-> should.opt]
                 ELSE must_scorer_opt
            ELSE IF must_scorer_opt # NoneOpt THEN must_scorer_opt
            ELSE IF should.opt # NoneOpt THEN should.opt
            ELSE EmptyScorer
    IN  IF c.err THEN [ret |-> ErrResult, args |-> <<>>]
        ELSE IF should.opt = PanicResult
        THEN [ret |-> PanicResult, args |-> should.args]
        ELSE IF exclude.opt = PanicResult
        THEN [ret |-> PanicResult, args |-> should.args \o exclude.args]
        ELSE IF should.opt = NoneOpt /\ must_scorer_opt = NoneOpt
        THEN [ret |-> EmptyScorer, args |-> should.args \o exclude.args]
        ELSE IF exclude.opt # NoneOpt
        THEN [ret |-> [kind |-> "Exclude", underlying |-> positive_scorer,
                       excluding |-> exclude.opt],
              args |-> should.args \o exclude.args]
        ELSE [ret |-> positive_scorer, args |-> should.args \o exclude.args]

\* <BooleanWeight as Weight>::scorer: what it returns, and the scorer_union calls
scorer(ws, scoring) ==
    IF ws = <<>>
    THEN [ret |-> EmptyScorer, args |-> <<>>]
    ELSE IF Len(ws) = 1
    THEN IF ws[1].occur = "MustNot"
         THEN [ret |-> EmptyScorer, args |-> <<>>]
         ELSE [ret |-> sub_scorer(ws, 1), args |-> <<>>]
    ELSE complex_scorer(ws, scoring)

\* one call weight.scorer(reader)
Scorer ==
    /\ scorer_ret' = scorer(weights, scoring_enabled).ret
    /\ union_args' = scorer(weights, scoring_enabled).args
    /\ UNCHANGED <<weights, scoring_enabled>>
    /\ UNCHANGED <<table_vars, split_vars, hash_vars, usage_vars>>

\* the state after BooleanWeight::new(weights, scoring_enabled)
BoolInit ==
    /\ InitTable(1)
    /\ InitSplit
    /\ InitHash
    /\ InitUsage
    /\ weights \in ClauseLists
    /\ scoring_enabled \in BOOLEAN
    /\ scorer_ret = NoScorer
    /\ union_args = <<>>

BoolNext == Scorer

\* scorer called on any BooleanWeight, any number of times
BoolSpec == BoolInit /\ [][BoolNext]_vars

(***************************************************************************)
(* Properties.                                                             *)
(***************************************************************************)
Slots == DOMAIN table
Occupied(b) == table[b].key_value_addr # NullAddr
OccupiedSlots == {b \in Slots : Occupied(b)}
StoredKey(b) == heap.slices[table[b].key_value_addr]
KeyStored(k) == \E b \in OccupiedSlots : StoredKey(b) = k
HasReturned == pc = "idle" /\ ret # NoRet
K4g == KeyPool[1]
K361n == KeyPool[2]

\* C1: every get_or_create(k) returns the term id and the value object (arena
\* address) the first get_or_create(k) returned, and the value read through
\* the returned reference is the one last written through a reference to k.
C1_GetOrCreateIdempotent ==
    HasReturned =>
        /\ hist_first[key_bytes] # NoRet
        /\ ret.id = hist_first[key_bytes].id
        /\ ret.addr = hist_first[key_bytes].addr
        /\ heap.objs[ret.addr].val = hist_written[key_bytes]

\* a later get_or_create of the first key, two other keys having been created
\* since, reads the value written through the first reference
C1_Witness ==
    /\ HasReturned
    /\ Len(hist_order) >= 3
    /\ key_bytes = hist_order[1]
    /\ heap.objs[ret.addr].val = FirstVal
    /\ hist_written[key_bytes] = FirstVal

\* C2: iter() yields the entries in the order of the first get_or_create of
\* their keys: of two distinct keys, the one created first is yielded
\* strictly before the other.
C2_IterInsertionOrder ==
    (pc = "idle" /\ ret = NoRet /\ iter_out # <<>>) =>
        \A a, b \in 1..Len(hist_order) :
            a < b =>
                /\ \E p, q \in DOMAIN iter_out :
                      iter_out[p].key = hist_order[a] /\ iter_out[q].key = hist_order[b]
                /\ \A p, q \in DOMAIN iter_out :
                      (iter_out[p].key = hist_order[a] /\ iter_out[q].key = hist_order[b])
                          => p < q

\* iter() after three keys were created, the second in a lower slot than the
\* first, and after a repeated get_or_create of the first key
C2_Witness ==
    /\ pc = "idle"
    /\ Len(iter_out) >= 3
    /\ iter_out[1].bucket > iter_out[2].bucket
    /\ key_bytes = hist_order[1]

\* C3: two distinct keys never resolve to the same entry: their term ids
\* differ and their value objects differ, also when their hashes are equal.
C3_DistinctKeysDistinctEntries ==
    /\ \A k1, k2 \in Keys :
          (k1 # k2 /\ hist_first[k1] # NoRet /\ hist_first[k2] # NoRet) =>
              /\ hist_first[k1].id # hist_first[k2].id
              /\ hist_first[k1].addr # hist_first[k2].addr
    /\ HasReturned =>
          \A k2 \in Keys :
              (k2 # key_bytes /\ hist_first[k2] # NoRet) =>
                  /\ ret.id # hist_first[k2].id
                  /\ ret.addr # hist_first[k2].addr

\* both keys of equal hash were created, so two slots hold the same hash, and
\* get_or_create has just returned for the one created second
C3_Witness ==
    /\ HasReturned
    /\ hist_first[K4g] # NoRet
    /\ hist_first[K361n] # NoRet
    /\ \E b1, b2 \in OccupiedSlots : b1 # b2 /\ table[b1].hash = table[b2].hash
    /\ key_bytes \in {K4g, K361n}
    /\ \E n \in 2..Len(hist_order) : hist_order[n] = key_bytes

\* The probe sequence has period 2^B: probe i examines the slot that probe
\* i - 2^B examined.  (Used to read C4, C5 and C6.)
ProbeSequencePeriodic ==
    (pc = "probing" /\ probe.i > Cardinality(Slots)) =>
        AndMask(probe.hash, probe.i * probe.i, mask)
            = AndMask(probe.hash, (probe.i - Cardinality(Slots)) * (probe.i - Cardinality(Slots)), mask)

\* C4: a call made while is_saturated() is false terminates.  Between the
\* probes of a call the table does not change and the slot examined by probe
\* i + 2^B is the slot examined by probe i, so the call terminates exactly if
\* it returns within 2^B probes: it never has 2^B unsuccessful probes behind it.
C4_TerminatesUnderFlushPolicy ==
    (pc = "probing" /\ ~is_saturated(table, occupied)) => probe.i < Cardinality(Slots)

\* C5: a call made while some slot is empty terminates (within 2^B probes, as
\* for C4).
C5_TerminatesUnlessFull ==
    (pc = "probing" /\ OccupiedSlots # Slots) => probe.i < Cardinality(Slots)

C7_SaturatedIffOverOneThird ==
    /\ Cardinality(OccupiedSlots) = Len(hist_order)
    /\ is_saturated(table, occupied) <=> (Cardinality(Slots) < 3 * Cardinality(OccupiedSlots))
    /\ is_saturated(table, occupied) <=> (Len(hist_order) > Cardinality(Slots) \div 3)
    /\ Len(hist_order) = 0 => ~is_saturated(table, occupied)

\* a table of at least 8 slots has just become saturated
C7_Witness ==
    /\ is_saturated(table, occupied)
    /\ Cardinality(Slots) >= 8
    /\ 3 * (Len(occupied) - 1) <= Cardinality(Slots)

\* C8: once is_saturated() is true it stays true.
C8_SaturatedMonotonic ==
    [][is_saturated(table, occupied) => is_saturated(table', occupied')]_vars

\* a key was created in a table that was saturated already, and iter() ran
C8_Witness ==
    /\ is_saturated(table, occupied)
    /\ Cardinality(Slots) < 3 * (Len(occupied) - 1)
    /\ iter_out # <<>>

\* C9: the table's length and mask never change; an occupied slot keeps its
\* (hash, key_value_addr) pair and its key bytes; a slot changes only inside
\* get_or_create, from empty to occupied.
C9_SlotsOnlyFill ==
    [][/\ DOMAIN table' = DOMAIN table
       /\ mask' = mask
       /\ Cardinality(DOMAIN table') = mask' + 1
       /\ \A b \in Slots :
             /\ Occupied(b) =>
                   /\ table'[b] = table[b]
                   /\ heap'.slices[table'[b].key_value_addr] = StoredKey(b)
             /\ table'[b] # table[b] =>
                   /\ pc = "probing"
                   /\ ~Occupied(b)
                   /\ table'[b].key_value_addr # NullAddr]_vars

\* a slot is filled while another one is occupied
C9_Witness ==
    /\ Len(occupied) >= 2
    /\ \A n \in 1..Len(occupied) : Occupied(occupied[n])
    /\ HasReturned
    /\ ret.id = occupied[Len(occupied)]

\* C10: when split_memory returns, table_bits is the largest B >= 1 with
\* 8 * 2^B < budget / 3 and arena_bytes is budget - 8 * 2^table_bits, so
\* the table takes at most a third of the budget; the tested budgets give
\* (67232, 12), (737856, 15) and (7902848, 18).
C10_SplitMemory ==
    (split_ret # NoSplit /\ split_ret # PanicSplit) =>
        LET arena_bytes == split_ret[1]
            table_bits == split_ret[2]
        IN  /\ table_bits >= 1
            /\ KeyValueSize * Pow2(table_bits) < budget \div 3
            /\ \A B \in 1..27 :
                  KeyValueSize * Pow2(B) < budget \div 3 => B <= table_bits
            /\ arena_bytes = budget - KeyValueSize * Pow2(table_bits)
            /\ 3 * KeyValueSize * Pow2(table_bits) <= budget
            /\ arena_bytes + KeyValueSize * Pow2(table_bits) = budget
            /\ budget = 100000 => split_ret = <<67232, 12>>
            /\ budget = 1000000 => split_ret = <<737856, 15>>
            /\ budget = 10000000 => split_ret = <<7902848, 18>>

\* split_memory returned for a budget at which one more bit just does not fit
C10_Witness ==
    /\ split_ret # NoSplit
    /\ split_ret # PanicSplit
    /\ split_ret[2] >= 2
    /\ KeyValueSize * Pow2(split_ret[2] + 1) = budget \div 3

\* C11: split_memory(budget) panics exactly when no table size of at least one
\* bit is below a third of the budget, that is when 2 * slot_size >=
\* budget / 3; for every other budget it returns a pair whose table_bits
\* is at least 1.
C11_SplitMemoryPanics ==
    split_ret # NoSplit =>
        /\ (split_ret = PanicSplit) <=> (2 * KeyValueSize >= budget \div 3)
        /\ (split_ret = PanicSplit) <=>
               ~(\E B \in 1..27 : KeyValueSize * Pow2(B) < budget \div 3)
        /\ (split_ret # PanicSplit => split_ret[2] >= 1)

\* the largest budget that panics: 50 / 3 = 16 = 2 * slot_size
C11_Witness == split_ret = PanicSplit /\ budget \div 3 = 2 * KeyValueSize

\* the bytes of the slice a call of murmurhash2 was given
SliceOf(run) == SubSeq(run.mem, run.start + 1, run.start + run.len)

\* the values test_murmur_against_reference_impl pins: "" 3632506080,
\* "a" 455683869, "ab" 2448092234, "abc" 2066295634, "abcd" 2588571162,
\* "abcde" 2988696942, "abcdefghijklmnop" 2350868870, each as
\* <<value \div 65536, value % 65536>>
Pinned ==
    { << <<>>, <<55427, 42208>> >>,
      << <<97>>, <<6953, 12061>> >>,
      << <<97, 98>>, <<37354, 60490>> >>,
      << <<97, 98, 99>>, <<31529, 11090>> >>,
      << <<97, 98, 99, 100>>, <<39498, 30234>> >>,
      << <<97, 98, 99, 100, 101>>, <<45603, 58734>> >>,
      << LongKey, <<35871, 27014>> >> }

\* C12: murmurhash2 with 32-bit wrapping arithmetic gives the pinned reference
\* values for "", "a", "ab", "abc", "abcd", "abcde" and "abcdefghijklmnop".
C12_PinnedHashes ==
    hash_run.out # NoHash =>
        \A pin \in Pinned : SliceOf(hash_run) = pin[1] => hash_run.out = pin[2]

\* the long key (four blocks, no tail) hashed after "abcde" (one block, a tail)
C12_Witness ==
    /\ SliceOf(hash_run) = LongKey /\ hash_run.out = <<35871, 27014>>
    /\ SliceOf(hash_prev) = <<97, 98, 99, 100, 101>>
    /\ hash_prev.out = <<45603, 58734>>

\* C13: murmurhash2(key) reads only the bytes at indices 0 .. len - 1 of the
\* slice (the word reads cover the first 4 * (len / 4) bytes, the tail the
\* other len mod 4), so two slices of equal length and bytes have equal
\* hashes, whatever precedes or follows them in their buffers.
C13_HashOfSliceOnly ==
    hash_run.out # NoHash =>
        /\ WordReadOffsets(hash_run.len) = 0..(4 * (hash_run.len \div 4) - 1)
        /\ TailReadOffsets(hash_run.len) =
               (4 * (hash_run.len \div 4))..(hash_run.len - 1)
        /\ (hash_prev.out # NoHash /\ SliceOf(hash_prev) = SliceOf(hash_run))
               => hash_prev.out = hash_run.out

\* "abcde" hashed at the start of "abcdeg" and one byte into "fabcde"
C13_Witness ==
    /\ hash_run.out # NoHash /\ hash_prev.out # NoHash
    /\ hash_run.len = 5 /\ SliceOf(hash_prev) = SliceOf(hash_run)
    /\ hash_run.start = 0 /\ hash_prev.start = 1
    /\ hash_run.mem[6] = 103

\* C14: the first get_or_create(k) of a key that is not in the table returns
\* a reference to a freshly created value with val = 0, stores a copy of the
\* bytes of k in the arena and makes exactly one more slot occupied; the
\* values and slots of the keys inserted before are not changed.
C14_FirstCallCreatesDefault ==
    [][(pc = "probing" /\ pc' = "idle" /\ ~KeyStored(key_bytes)) =>
          /\ ret'.addr \notin DOMAIN heap.objs
          /\ heap'.objs[ret'.addr].val = 0
          /\ LET a == table'[ret'.id].key_value_addr
             IN  /\ a \notin DOMAIN heap.slices
                 /\ a \in DOMAIN heap'.slices
                 /\ heap'.slices[a] = key_bytes
          /\ ~Occupied(ret'.id)
          /\ {b \in DOMAIN table' : table'[b].key_value_addr # NullAddr}
                = OccupiedSlots \cup {ret'.id}
          /\ \A b \in OccupiedSlots : table'[b] = table[b]
          /\ \A a \in DOMAIN heap.objs : heap'.objs[a] = heap.objs[a]
          /\ \A a \in DOMAIN heap.slices : heap'.slices[a] = heap.slices[a]
      ]_vars

\* a fourth key has just been created, after the first three were written
C14_Witness ==
    /\ HasReturned /\ FreshRef
    /\ Len(hist_order) = 4
    /\ key_bytes = hist_order[4]
    /\ \A n \in 1..3 :
          heap.objs[hist_first[hist_order[n]].addr].val = FirstVal + n - 1

\* C15: iter() is finite and yields exactly one element per distinct key ever
\* inserted (repeated get_or_create calls add none); each element carries
\* the bytes of the inserted key, the term id get_or_create returned for it
\* and the address of the value get_or_create returned, which is the address
\* of the key plus 2 plus the length of the key.
C15_IterOnePerKey ==
    (pc = "idle" /\ ret = NoRet) =>
        /\ Len(iter_out) = Cardinality({k \in Keys : hist_first[k] # NoRet})
        /\ \A k \in Keys :
              Cardinality({n \in DOMAIN iter_out : iter_out[n].key = k})
                 = IF hist_first[k] # NoRet THEN 1 ELSE 0
        /\ \A n \in DOMAIN iter_out :
              LET e == iter_out[n]
              IN  /\ e.key \in Keys
                  /\ e.bucket = hist_first[e.key].id
                  /\ e.offset = hist_first[e.key].addr
                  /\ e.offset = table[e.bucket].key_value_addr + 2 + Len(e.key)
                  /\ e.offset \in DOMAIN heap.objs

\* iter() after four keys, the last call before it having repeated the second key
C15_Witness ==
    /\ pc = "idle" /\ ret = NoRet
    /\ Len(iter_out) = 4
    /\ key_bytes = hist_order[2]

RECURSIVE SumWeights(_)
\* the sum of the sub-weights that are recorded
SumWeights(sw) ==
    IF sw = <<>> THEN 0
    ELSE (IF sw[1] = NoWeight THEN 0 ELSE sw[1]) + SumWeights(Tail(sw))

\* C16: from FieldUsage::empty(field), any sequence of add_field_idx(idx, size)
\* calls with pairwise distinct idx completes without panic, records size at
\* sub_weights[idx], and total() is the sum of the recorded sub-weights.
C16_AddFieldIdxRecords ==
    /\ usage_pc # "panic"
    /\ \A n \in DOMAIN usage_added :
          /\ usage_added[n][1] < Len(sub_weights)
          /\ sub_weights[usage_added[n][1] + 1] = usage_added[n][2]
    /\ total = SumWeights(sub_weights)

\* C17: with an arena that allocates sequentially and that only this table
\* allocates from, the contiguity assertion of get_or_create never fails (the
\* value address is the key offset + 2 + the key length for every insertion),
\* and in every reachable state the key bytes of every occupied slot are
\* immediately followed by the slot's value object.
C17_KeyThenValueContiguous ==
    /\ pc # "panic"
    /\ \A b \in OccupiedSlots :
          LET a == table[b].key_value_addr
          IN  /\ a \in DOMAIN heap.slices
              /\ (a + 2 + Len(heap.slices[a])) \in DOMAIN heap.objs
              /\ \A k \in Keys : hist_first[k].id = b =>
                    hist_first[k].addr = a + 2 + Len(k)
    /\ \A k \in Keys : hist_first[k] # NoRet => Occupied(hist_first[k].id)

\* five keys of lengths 2, 4, 1, 3 and 5 inserted, the assertion having held each time
C17_Witness ==
    /\ pc = "idle"
    /\ Cardinality(OccupiedSlots) = 5
    /\ Cardinality({Len(StoredKey(b)) : b \in OccupiedSlots}) = 5

\* the i-th slot of the probe sequence of the key being looked up:
\* (hash + i*i) & mask, of which only the low bits of the hash matter
ProbeSlot(i) == (hash_of[key_bytes][2] + i * i) % (mask + 1)

\* C18: get_or_create examines the slots (hash + i*i) & mask for i = 1, 2, 3,
\* ... in this order (the first one is (hash + 1) & mask, not hash & mask) and
\* stops at the first slot that is empty or holds k; a new key is stored at
\* the first empty slot of its probe sequence, and every earlier slot of the
\* sequence is occupied by a different key.
C18_ProbeOrder ==
    [][pc = "probing" =>
          LET i == probe.i + 1
              b == ProbeSlot(i)
          IN  /\ probe'.i = i
              /\ \A j \in 1..probe.i :
                    Occupied(ProbeSlot(j)) /\ StoredKey(ProbeSlot(j)) # key_bytes
              /\ IF ~Occupied(b)
                 THEN /\ pc' = "idle"
                      /\ ret'.id = b
                      /\ table'[b].key_value_addr # NullAddr
                      /\ heap'.slices[table'[b].key_value_addr] = key_bytes
                      /\ \A c \in Slots \ {b} : table'[c] = table[c]
                 ELSE IF StoredKey(b) = key_bytes
                 THEN pc' = "idle" /\ ret'.id = b /\ table' = table
                 ELSE pc' = "probing" /\ table' = table
      ]_vars

\* a new key stored at the third slot of its probe sequence, in a table of 16
C18_Witness ==
    /\ HasReturned /\ FreshRef
    /\ probe.i = 3
    /\ mask = 15
    /\ ret.id = ProbeSlot(3)
    /\ ret.id # ProbeSlot(1) /\ ret.id # ProbeSlot(2)

\* C19: get_or_create(k) for a key that is already in the table changes
\* nothing: the slot array, the occupancy order, the occupied count (hence
\* is_saturated()), the arena contents and its allocation pointer are the
\* same after the call as before.
C19_HitChangesNothing ==
    [][((pc = "probing" \/ pc' = "probing") /\ KeyStored(key_bytes'))  =>
          /\ table' = table
          /\ occupied' = occupied
          /\ mask' = mask
          /\ is_saturated(table', occupied') = is_saturated(table, occupied)
          /\ heap' = heap
          /\ pc' # "panic"
      ]_vars

\* a call for the first of four keys has returned after three probes
C19_Witness ==
    /\ HasReturned
    /\ Len(hist_order) = 4
    /\ key_bytes # hist_order[4]
    /\ probe.i >= 3
    /\ ret = hist_first[key_bytes]

\* C20: in every state reachable from new() through get_or_create calls, the
\* occupancy order has no duplicate index and its indices are exactly the
\* non-empty slots; its length is the number of occupied slots and the
\* number of distinct keys inserted; every index is below 2^table_bits; and
\* the hash stored in an occupied slot is murmurhash2 of the key bytes stored
\* at the slot's offset.
C20_OccupiedMatchesTable ==
    /\ \A m, n \in DOMAIN occupied : m # n => occupied[m] # occupied[n]
    /\ {occupied[n] : n \in DOMAIN occupied} = OccupiedSlots
    /\ Len(occupied) = Cardinality(OccupiedSlots)
    /\ Len(occupied) = Cardinality({k \in Keys : hist_first[k] # NoRet})
    /\ {StoredKey(b) : b \in OccupiedSlots} = {k \in Keys : hist_first[k] # NoRet}
    /\ \E bits \in 1..MaxTableBits :
          /\ Cardinality(Slots) = Pow2(bits)
          /\ mask = Pow2(bits) - 1
          /\ \A n \in DOMAIN occupied : occupied[n] >= 0 /\ occupied[n] < Pow2(bits)
    /\ \A b \in OccupiedSlots : table[b].hash = hash_of[StoredKey(b)]

\* five keys in a table of 8 slots, two of them with the same stored hash
C20_Witness ==
    /\ Len(occupied) = 5
    /\ mask = 7
    /\ \E b, c \in OccupiedSlots : b # c /\ table[b].hash = table[c].hash

\* the clause list has no Must and no Should clause
OnlyMustNot == \A n \in DOMAIN weights : weights[n].occur = "MustNot"

\* the scorer call of every sub-weight succeeds
SubScorersSucceed == \A n \in DOMAIN weights : weights[n].weight # "err"

\* C21: BooleanWeight::scorer returns the empty scorer whenever its clause
\* list has no Must and no Should clause (empty, one MustNot, several
\* MustNot), for both values of scoring_enabled, provided the scorer call of
\* every sub-weight succeeds; and the non-empty assertion of scorer_union
\* never fails when it is reached from BooleanWeight::scorer.
C21_OnlyMustNotIsEmpty ==
    scorer_ret # NoScorer =>
        /\ (OnlyMustNot /\ SubScorersSucceed) => scorer_ret = EmptyScorer
        /\ scorer_ret # PanicResult
        /\ \A n \in DOMAIN union_args : union_args[n] >= 1

\* three MustNot clauses with scoring enabled: scorer_union was given the
\* three scorers to exclude, and the empty scorer was returned
C21_Witness ==
    /\ scorer_ret = EmptyScorer
    /\ Len(weights) = 3 /\ OnlyMustNot
    /\ scoring_enabled
    /\ union_args = <<3>>

====
